---- MODULE Spec2Model ----
(***************************************************************************)
(* Model of backend/app.py: a Flask relay that filters a prompt, reads the *)
(* session's recent chat history from SQLite, calls the generative model,  *)
(* stores the exchange and maps the result to an HTTP answer.              *)
(*                                                                         *)
(* Requests are numbered in arrival order and run concurrently; every      *)
(* SQL statement (one SELECT, one INSERT+commit) is one atomic step.       *)
(* Text (queries, responses, prompts) is modelled as strings on which      *)
(* lower(), substring search and concatenation are computed character by   *)
(* character.  The timestamp column and the result's timestamp field are   *)
(* wall-clock text that no code path reads back; they are left out.        *)
(***************************************************************************)
EXTENDS Integers, Sequences, FiniteSets, TLC

VARIABLES
    store,      \* rows of table chat_history: [id, user_id, session_id, query, response]
    lastId,     \* AUTOINCREMENT counter (sqlite_sequence): largest id ever assigned
    pc,         \* pc[r]: position of request r
    req,        \* req[r]: the request as the route received it (method and JSON body)
    local,      \* local[r]: generate_response's locals (user_id, session_id, query, history,
                \* full_prompt, text, and the exception of save_to_history being handled)
    result,     \* result[r]: the dict generate_response returned (NoResult before that)
    http,       \* http[r]: the HTTP answer, code and JSON payload (NoHttp before that)
    conns,      \* conns[r]: SQLite connections request r has opened and not closed
    committed,  \* history variable: the rows in the order their INSERTs committed
    ops         \* history variable: per request, what it did (filter runs, reads, the ids of
                \* the rows its read returned, the number of rows its session had at its read,
                \* model calls, the prompt passed to the model, the exception the model
                \* call raised, the exception the INSERT raised, the ids it appended)

vars == <<store, lastId, pc, req, local, result, http, conns, committed, ops>>

-----------------------------------------------------------------------------
(* Bounds *)

NReq == 2                \* number of requests in one run

Reqs == 1..NReq

None == "<none>"         \* an absent JSON field / a local not yet assigned

-----------------------------------------------------------------------------
(* Text: Python str operations *)

UpperCase == "ABCDEFGHIJKLMNOPQRSTUVWXYZ"
LowerCase == "abcdefghijklmnopqrstuvwxyz"

\* The one-character string at position i of s.
CharAt(s, i) == SubSeq(s, i, i)

\* str.lower() of a single character.
LowerChar(c) ==
    IF \E i \in 1..Len(UpperCase) : CharAt(UpperCase, i) = c
    THEN CharAt(LowerCase, CHOOSE i \in 1..Len(UpperCase) : CharAt(UpperCase, i) = c)
    ELSE c

\* str.lower(): every character lowered, in place.
lower(s) ==
    LET low[i \in 0..Len(s)] ==
            IF i = 0 THEN "" ELSE low[i - 1] \o LowerChar(CharAt(s, i))
    IN  low[Len(s)]

\* Python's `needle in hay` for strings.
Contains(hay, needle) ==
    \E i \in 1..(Len(hay) - Len(needle) + 1) : SubSeq(hay, i, i + Len(needle) - 1) = needle

\* "\n".join(parts)
RECURSIVE JoinLines(_)
JoinLines(parts) ==
    IF parts = <<>> THEN ""
    ELSE IF Len(parts) = 1 THEN parts[1]
    ELSE parts[1] \o "\n" \o JoinLines(Tail(parts))

-----------------------------------------------------------------------------
(* Safety filter *)

_BANNED_KEYWORDS ==
    << "hack", "crack", "bypass", "phish", "exploit", "malware",
       "keylogger", "unauthorized", "unauthorised", "steal", "breach" >>

\* The filter as it would be without lower(): a case-sensitive match.
_is_malicious_query_cased(query) ==
    \E k \in 1..Len(_BANNED_KEYWORDS) : Contains(query, _BANNED_KEYWORDS[k])

\* q = query.lower(); any(kw in q for kw in _BANNED_KEYWORDS)
_is_malicious_query(query) ==
    \E q \in {lower(query)} :
        \E k \in 1..Len(_BANNED_KEYWORDS) : Contains(q, _BANNED_KEYWORDS[k])

-----------------------------------------------------------------------------
(* History store: table chat_history *)

Row(id, user_id, session_id, query, response) ==
    [id |-> id, user_id |-> user_id, session_id |-> session_id,
     query |-> query, response |-> response]

\* The INSERT binding a fixed session id instead of the argument.
save_to_history_default_session(tbl, seq, user_id, session_id, query, response) ==
    tbl \cup {[id |-> seq + 1, user_id |-> user_id, session_id |-> "default_session",
               query |-> query, response |-> response]}

\* The INSERT with the last two bound values in the wrong order.
save_to_history_swapped(tbl, seq, user_id, session_id, query, response) ==
    tbl \cup {[id |-> seq + 1, user_id |-> user_id, session_id |-> session_id,
               query |-> response, response |-> query]}

\* INSERT OR REPLACE keyed on the session: the new row takes the place of the
\* session's older rows.
save_to_history_replacing(tbl, seq, user_id, session_id, query, response) ==
    {row \in tbl : ~(row.user_id = user_id /\ row.session_id = session_id)}
        \cup {Row(seq + 1, user_id, session_id, query, response)}

\* INSERT INTO chat_history ...; commit.  The id is AUTOINCREMENT: one more
\* than the largest id ever assigned.
save_to_history(tbl, seq, user_id, session_id, query, response) ==
    tbl \cup {Row(seq + 1, user_id, session_id, query, response)}

\* The WHERE clause with the session_id test left out.
WhereSession_user_only(tbl, user_id, session_id) ==
    {row \in tbl : row.user_id = user_id}

\* WHERE user_id = ? AND session_id = ?
WhereSession(tbl, user_id, session_id) ==
    {row \in tbl : row.user_id = user_id /\ row.session_id = session_id}

\* ORDER BY id ASC LIMIT n: the oldest rows instead of the newest.
RECURSIVE OrderByIdAscLimit(_, _)
OrderByIdAscLimit(rows, n) ==
    IF rows = {} \/ n <= 0 THEN <<>>
    ELSE LET low == CHOOSE row \in rows : \A other \in rows : row.id <= other.id
         IN  <<low>> \o OrderByIdAscLimit(rows \ {low}, n - 1)

\* ORDER BY id DESC LIMIT n
\* The i-th row is the one with i - 1 rows of greater id; at most n rows.
OrderByIdDescLimit(rows, n) ==
    LET count == IF Cardinality(rows) < n THEN Cardinality(rows) ELSE n
    IN  [i \in 1..count |->
            CHOOSE row \in rows : Cardinality({other \in rows : other.id > row.id}) = i - 1]

\* reversed(rows)
Reversed(rows) == [i \in 1..Len(rows) |-> rows[Len(rows) + 1 - i]]

\* The rows the SELECT of get_session_history matches, as the cursor yields them
\* (newest first).
SelectRecent(tbl, user_id, session_id, limit) ==
    OrderByIdDescLimit(WhereSession(tbl, user_id, session_id), limit)

\* The read without reversed(): the rows as the cursor yields them.
get_session_history_newest_first(tbl, user_id, session_id, limit) ==
    LET rows == SelectRecent(tbl, user_id, session_id, limit)
    IN  [i \in 1..Len(rows) |-> [query |-> rows[i].query, response |-> rows[i].response]]

\* SELECT query, response ... ; [{"query": q, "response": r} for q, r in reversed(rows)]
get_session_history(tbl, user_id, session_id, limit) ==
    LET rev == Reversed(SelectRecent(tbl, user_id, session_id, limit))
    IN  [i \in 1..Len(rev) |-> [query |-> rev[i].query, response |-> rev[i].response]]

DefaultLimit == 5        \* get_session_history(..., limit: int = 5)

-----------------------------------------------------------------------------
(* Prompt assembly *)

\* f"User: {h['query']}\nAssistant: {h['response']}"
Exchange(h) == "User: " \o h.query \o "\nAssistant: " \o h.response

\* The context cut to the three newest records.
context_text_newest_three(history) ==
    LET kept == SubSeq(history, IF Len(history) > 3 THEN Len(history) - 2 ELSE 1, Len(history))
    IN JoinLines([i \in 1..Len(kept) |-> Exchange(kept[i])])

context_text(history) == JoinLines([i \in 1..Len(history) |-> Exchange(history[i])])

Preamble == "Here is the conversation so far:\n"
AsksLabel == "Now the user asks: "

\* The prompt without preamble when there is no history.
full_prompt_bare(history, query) ==
    IF history = <<>> THEN query
    ELSE Preamble \o context_text(history) \o "\n\n" \o AsksLabel \o query

full_prompt(history, query) ==
    Preamble \o context_text(history) \o "\n\n" \o AsksLabel \o query

-----------------------------------------------------------------------------
(* Inputs and the environment's answers *)

\* JSON bodies of POST /: each field a string, or absent.  The key fields give
\* three sessions: ("anonymous", "default_session"), ("anonymous", "s1") and
\* ("alice", "s1"); two share only the user and two share only the session id.
Prompts == {None, "", "hello", "How to HACK wifi"}
Keys    == { [user_id |-> None,    session_id |-> None],
             [user_id |-> None,    session_id |-> "s1"],
             [user_id |-> "alice", session_id |-> "s1"] }

Bodies == {[prompt |-> p, user_id |-> k.user_id, session_id |-> k.session_id] :
             p \in Prompts, k \in Keys}

NoBody == [prompt |-> None, user_id |-> None, session_id |-> None]

\* data.get(key) without the default.
Get_no_default(data, key, default) == data[key]

\* data.get(key, default)
Get(data, key, default) == IF data[key] = None THEN default ELSE data[key]

\* What model.generate_content(full_prompt) can do: return an object with a
\* text attribute, return an object without one, or raise.
ModelOutcomes ==
    { [kind |-> "response", has_text |-> TRUE,  text |-> "hi", str |-> "<response>", error |-> None],
      [kind |-> "response", has_text |-> FALSE, text |-> None, str |-> "<response>", error |-> None],
      [kind |-> "raise",    has_text |-> FALSE, text |-> None, str |-> None, error |-> "quota exceeded"] }

\* getattr(response, "text", str(response))
ExtractText(response) == IF response.has_text THEN response.text ELSE response.str

\* What the INSERT of save_to_history can do: commit, or raise sqlite3.OperationalError.
StoreOutcomes == {"commit", "database is locked"}

\* The table when the process starts: a fresh database after init_db(), or the
\* file left by earlier runs (CREATE TABLE IF NOT EXISTS keeps its rows).
EarlierWrites ==
    << <<"alice", "s1", "q1", "r1">>,
       <<"anonymous", "s1", "x1", "y1">>,
       <<"alice", "s1", "q2", "r2">>,
       <<"alice", "s1", "q3", "r3">>,
       <<"alice", "s1", "q4", "r4">>,
       <<"alice", "s1", "q5", "r5">> >>

EarlierRows == [i \in 1..Len(EarlierWrites) |->
                  Row(i, EarlierWrites[i][1], EarlierWrites[i][2],
                      EarlierWrites[i][3], EarlierWrites[i][4])]

InitialLogs == {<<>>, EarlierRows}

-----------------------------------------------------------------------------
(* State *)

NoLocal == [user_id |-> None, session_id |-> None, query |-> None,
            history |-> <<>>, full_prompt |-> None, text |-> None, exc |-> None]

NoResult == [status |-> None]
NoHttp   == [code |-> 0]
NoOps    == [filters |-> 0, reads |-> 0, read |-> <<>>, seen |-> 0, calls |-> 0,
             sent |-> None, failure |-> None, fault |-> None, appended |-> {}]

Init ==
    /\ committed \in InitialLogs
    /\ store = {committed[i] : i \in 1..Len(committed)}
    /\ lastId = Len(committed)
    /\ pc = [r \in Reqs |-> "idle"]
    /\ req = [r \in Reqs |-> [method |-> None, data |-> NoBody]]
    /\ local = [r \in Reqs |-> NoLocal]
    /\ result = [r \in Reqs |-> NoResult]
    /\ http = [r \in Reqs |-> NoHttp]
    /\ ops = [r \in Reqs |-> NoOps]
    /\ conns = [r \in Reqs |-> 0]

\* The rows a step added, as a piece of the commit log.
RECURSIVE AsLog(_)
AsLog(rows) ==
    IF rows = {} THEN <<>>
    ELSE LET first == CHOOSE row \in rows : \A other \in rows : row.id <= other.id
         IN  <<first>> \o AsLog(rows \ {first})

\* Requests are numbered in arrival order.
Arrives(r) == pc[r] = "idle" /\ \A q \in Reqs : q < r => pc[q] # "idle"

-----------------------------------------------------------------------------
(* Routes and generate_response, one action per step *)

\* The mapping with the test on the wrong status: only 'error' is a failure.
Respond_unless_error(res) ==
    IF res.status # "error"
    THEN [code |-> 200,
          response |-> IF "response" \in DOMAIN res THEN res.response ELSE res.message]
    ELSE [code |-> 400,
          error |-> IF "message" \in DOMAIN res THEN res.message ELSE "Unknown error"]

\* generate(): map the dict generate_response returned to the HTTP answer.
\* The mapping is local to the request; it is taken in the same step as the
\* return that produces the dict.
Respond(res) ==
    IF res.status = "ok"
    THEN [code |-> 200, response |-> res.response]
    ELSE [code |-> 400,
          error |-> IF "message" \in DOMAIN res THEN res.message ELSE "Unknown error"]

\* Positions at which a request has been answered.
Terminal == {"HEALTH", "INPUT_ERROR", "BLOCKED", "ERROR", "RESPONDED"}

\* GET / : home()
home(r) ==
    /\ Arrives(r)
    /\ req' = [req EXCEPT ![r] = [method |-> "GET", data |-> NoBody]]
    /\ http' = [http EXCEPT ![r] =
          [code |-> 200, message |-> "Gemini backend with session management running!"]]
    /\ pc' = [pc EXCEPT ![r] = "HEALTH"]
    /\ UNCHANGED <<store, lastId, local, result, committed, ops, conns>>

\* generate() testing `prompt is None` instead of `not prompt`: an empty
\* prompt goes on to generate_response.
generate_missing_only(r, data) ==
    /\ Arrives(r)
    /\ req' = [req EXCEPT ![r] = [method |-> "POST", data |-> data]]
    /\ IF data.prompt = None
       THEN /\ http' = [http EXCEPT ![r] = [code |-> 400, error |-> "No prompt provided"]]
            /\ pc' = [pc EXCEPT ![r] = "INPUT_ERROR"]
            /\ UNCHANGED local
       ELSE /\ local' = [local EXCEPT ![r] =
                  [NoLocal EXCEPT !.user_id = Get(data, "user_id", "anonymous"),
                                  !.session_id = Get(data, "session_id", "default_session"),
                                  !.query = data.prompt]]
            /\ pc' = [pc EXCEPT ![r] = "RECEIVED"]
            /\ UNCHANGED http
    /\ UNCHANGED <<store, lastId, result, committed, ops, conns>>

\* POST / : generate(), up to the call of generate_response
generate(r, data) ==
    /\ Arrives(r)
    /\ req' = [req EXCEPT ![r] = [method |-> "POST", data |-> data]]
    /\ LET prompt     == Get(data, "prompt", "")
           user_id    == Get(data, "user_id", "anonymous")
           session_id == Get(data, "session_id", "default_session")
       IN  IF prompt = ""
           THEN /\ http' = [http EXCEPT ![r] = [code |-> 400, error |-> "No prompt provided"]]
                /\ pc' = [pc EXCEPT ![r] = "INPUT_ERROR"]
                /\ UNCHANGED local
           ELSE /\ local' = [local EXCEPT ![r] =
                      [NoLocal EXCEPT !.user_id = user_id, !.session_id = session_id,
                                      !.query = prompt]]
                /\ pc' = [pc EXCEPT ![r] = "RECEIVED"]
                /\ UNCHANGED http
    /\ UNCHANGED <<store, lastId, result, committed, ops, conns>>

\* The filter saving the refused query and the refusal as an exchange.
Filter_recording(r) ==
    /\ pc[r] = "RECEIVED"
    /\ ops' = [ops EXCEPT ![r].filters = @ + 1]
    /\ IF _is_malicious_query(local[r].query)
       THEN /\ result' = [result EXCEPT ![r] =
                  [status |-> "blocked",
                   message |-> "I can't assist with unauthorized or harmful activities."]]
            /\ pc' = [pc EXCEPT ![r] = "BLOCKED"]
            /\ http' = [http EXCEPT ![r] = Respond(result'[r])]
            /\ store' = save_to_history(store, lastId, local[r].user_id, local[r].session_id,
                                        local[r].query, result'[r].message)
            /\ lastId' = lastId + 1
            /\ committed' = committed \o AsLog(store' \ store)
       ELSE /\ pc' = [pc EXCEPT ![r] = "FILTERED"]
            /\ UNCHANGED <<result, http, store, lastId, committed>>
    /\ UNCHANGED <<req, local, conns>>

\* generate_response: the safety check (and the answer, when it blocks)
Filter(r) ==
    /\ pc[r] = "RECEIVED"
    /\ ops' = [ops EXCEPT ![r].filters = @ + 1]
    /\ IF _is_malicious_query(local[r].query)
       THEN /\ result' = [result EXCEPT ![r] =
                  [status |-> "blocked",
                   message |-> "I can't assist with unauthorized or harmful activities."]]
            /\ pc' = [pc EXCEPT ![r] = "BLOCKED"]
            /\ http' = [http EXCEPT ![r] = Respond(result'[r])]
       ELSE /\ pc' = [pc EXCEPT ![r] = "FILTERED"]
            /\ UNCHANGED <<result, http>>
    /\ UNCHANGED <<store, lastId, req, local, committed, conns>>

\* The history read placed ahead of the safety check.
Contextualize_unfiltered(r) ==
    /\ pc[r] \in {"RECEIVED", "FILTERED"}
    /\ \E history \in {get_session_history(store, local[r].user_id, local[r].session_id,
                                             DefaultLimit)} :
          local' = [local EXCEPT ![r].history = history,
                                 ![r].full_prompt = full_prompt(history, local[r].query)]
    /\ \E rows \in {Reversed(SelectRecent(store, local[r].user_id, local[r].session_id,
                                           DefaultLimit))} :
           ops' = [ops EXCEPT ![r].reads = @ + 1,
                              ![r].read = [i \in 1..Len(rows) |-> rows[i].id],
                              ![r].seen = Cardinality(
                                  {row \in store : /\ row.user_id = local[r].user_id
                                                   /\ row.session_id = local[r].session_id})]
    /\ pc' = [pc EXCEPT ![r] = "CONTEXTUALIZED"]
    /\ UNCHANGED <<store, lastId, req, result, http, committed, conns>>

\* generate_response: load the session context and build the prompt
Contextualize(r) ==
    /\ pc[r] = "FILTERED"
    /\ \E history \in {get_session_history(store, local[r].user_id, local[r].session_id,
                                             DefaultLimit)} :
          local' = [local EXCEPT ![r].history = history,
                                 ![r].full_prompt = full_prompt(history, local[r].query)]
    /\ \E rows \in {Reversed(SelectRecent(store, local[r].user_id, local[r].session_id,
                                           DefaultLimit))} :
           ops' = [ops EXCEPT ![r].reads = @ + 1,
                              ![r].read = [i \in 1..Len(rows) |-> rows[i].id],
                              ![r].seen = Cardinality(
                                  {row \in store : /\ row.user_id = local[r].user_id
                                                   /\ row.session_id = local[r].session_id})]
    /\ pc' = [pc EXCEPT ![r] = "CONTEXTUALIZED"]
    /\ UNCHANGED <<store, lastId, req, result, http, committed, conns>>

\* The model call with save_to_history moved out of the success path: the
\* exchange is stored although the call raised.
CallModel_saving(r, outcome) ==
    /\ pc[r] = "CONTEXTUALIZED"
    /\ ops' = [ops EXCEPT ![r].calls = @ + 1,
                          ![r].sent = local[r].full_prompt,
                          ![r].failure = IF outcome.kind = "raise" THEN outcome.error ELSE None,
                          ![r].appended = IF outcome.kind = "raise" THEN {lastId + 1} ELSE @]
    /\ IF outcome.kind = "raise"
       THEN /\ result' = [result EXCEPT ![r] = [status |-> "error", message |-> outcome.error]]
            /\ pc' = [pc EXCEPT ![r] = "ERROR"]
            /\ http' = [http EXCEPT ![r] = Respond(result'[r])]
            /\ store' = save_to_history(store, lastId, local[r].user_id, local[r].session_id,
                                        local[r].query, outcome.error)
            /\ lastId' = lastId + 1
            /\ committed' = committed \o AsLog(store' \ store)
            /\ UNCHANGED local
       ELSE /\ local' = [local EXCEPT ![r].text = ExtractText(outcome)]
            /\ pc' = [pc EXCEPT ![r] = "CALLED"]
            /\ UNCHANGED <<result, http, store, lastId, committed>>
    /\ UNCHANGED <<req, conns>>

\* The model call sending a prompt rebuilt from a fresh history read.
CallModel_rebuilding(r, outcome) ==
    /\ pc[r] = "CONTEXTUALIZED"
    /\ \E fresh \in {get_session_history(store, local[r].user_id, local[r].session_id,
                                           DefaultLimit)} :
          ops' = [ops EXCEPT ![r].calls = @ + 1,
                             ![r].sent = full_prompt(fresh, local[r].query),
                             ![r].failure = IF outcome.kind = "raise" THEN outcome.error
                                            ELSE None]
    /\ IF outcome.kind = "raise"
       THEN /\ result' = [result EXCEPT ![r] = [status |-> "error", message |-> outcome.error]]
            /\ pc' = [pc EXCEPT ![r] = "ERROR"]
            /\ http' = [http EXCEPT ![r] = Respond(result'[r])]
            /\ UNCHANGED local
       ELSE /\ local' = [local EXCEPT ![r].text = ExtractText(outcome)]
            /\ pc' = [pc EXCEPT ![r] = "CALLED"]
            /\ UNCHANGED <<result, http>>
    /\ UNCHANGED <<store, lastId, req, committed, conns>>

\* The model call tried a second time when the first attempt raises.
CallModel_retrying(r, outcome) ==
    /\ pc[r] = "CONTEXTUALIZED"
    /\ ops' = [ops EXCEPT ![r].calls = @ + 1,
                          ![r].sent = local[r].full_prompt,
                          ![r].failure = IF outcome.kind = "raise" /\ ops[r].calls > 0
                                         THEN outcome.error ELSE None]
    /\ IF outcome.kind = "raise"
       THEN IF ops[r].calls > 0
            THEN /\ result' = [result EXCEPT ![r] =
                                  [status |-> "error", message |-> outcome.error]]
                 /\ pc' = [pc EXCEPT ![r] = "ERROR"]
                 /\ http' = [http EXCEPT ![r] = Respond(result'[r])]
                 /\ UNCHANGED local
            ELSE UNCHANGED <<pc, local, result, http>>
       ELSE /\ local' = [local EXCEPT ![r].text = ExtractText(outcome)]
            /\ pc' = [pc EXCEPT ![r] = "CALLED"]
            /\ UNCHANGED <<result, http>>
    /\ UNCHANGED <<store, lastId, req, committed, conns>>

\* generate_response: the blocking model call and the text extraction (and the
\* answer, when the call raises)
CallModel(r, outcome) ==
    /\ pc[r] = "CONTEXTUALIZED"
    /\ ops' = [ops EXCEPT ![r].calls = @ + 1,
                          ![r].sent = local[r].full_prompt,
                          ![r].failure = IF outcome.kind = "raise" THEN outcome.error ELSE None]
    /\ IF outcome.kind = "raise"
       THEN /\ result' = [result EXCEPT ![r] = [status |-> "error", message |-> outcome.error]]
            /\ pc' = [pc EXCEPT ![r] = "ERROR"]
            /\ http' = [http EXCEPT ![r] = Respond(result'[r])]
            /\ UNCHANGED local
       ELSE /\ local' = [local EXCEPT ![r].text = ExtractText(outcome)]
            /\ pc' = [pc EXCEPT ![r] = "CALLED"]
            /\ UNCHANGED <<result, http>>
    /\ UNCHANGED <<store, lastId, req, committed, conns>>

\* The append with its exception swallowed: the request goes on as if the
\* row had been written.
Persist_swallowing(r, outcome) ==
    /\ pc[r] = "CALLED"
    /\ IF outcome = "commit"
       THEN /\ store' = save_to_history(store, lastId, local[r].user_id, local[r].session_id,
                                        local[r].query, local[r].text)
            /\ lastId' = lastId + 1
            /\ committed' = committed \o AsLog(store' \ store)
            /\ ops' = [ops EXCEPT ![r].appended = @ \cup {row.id : row \in store' \ store}]
       ELSE /\ ops' = [ops EXCEPT ![r].fault = outcome]
            /\ UNCHANGED <<store, lastId, committed>>
    /\ pc' = [pc EXCEPT ![r] = "PERSISTED"]
    /\ UNCHANGED <<req, local, result, http, conns>>

\* The append waiting for its turn: it does not start while another request
\* is between its model call and its own append.
Persist_exclusive(r, outcome) ==
    /\ pc[r] = "CALLED"
    /\ \A q \in Reqs \ {r} : pc[q] # "CALLED"
    /\ IF outcome = "commit"
       THEN /\ store' = save_to_history(store, lastId, local[r].user_id, local[r].session_id,
                                        local[r].query, local[r].text)
            /\ lastId' = lastId + 1
            /\ committed' = committed \o AsLog(store' \ store)
            /\ ops' = [ops EXCEPT ![r].appended = @ \cup {row.id : row \in store' \ store}]
            /\ pc' = [pc EXCEPT ![r] = "PERSISTED"]
            /\ UNCHANGED <<local, conns>>
       ELSE /\ local' = [local EXCEPT ![r].exc = outcome]
            /\ pc' = [pc EXCEPT ![r] = "FAULTED"]
            /\ ops' = [ops EXCEPT ![r].fault = outcome]
            /\ conns' = [conns EXCEPT ![r] = @ + 1]
            /\ UNCHANGED <<store, lastId, committed>>
    /\ UNCHANGED <<req, result, http>>

\* generate_response: save_to_history inside the try block.  The function
\* connects, executes the INSERT, commits and closes; when the INSERT or the
\* commit raises, conn.close() is not reached and the exception leaves the
\* function with the connection open.
Persist(r, outcome) ==
    /\ pc[r] = "CALLED"
    /\ IF outcome = "commit"
       THEN /\ store' = save_to_history(store, lastId, local[r].user_id, local[r].session_id,
                                        local[r].query, local[r].text)
            /\ lastId' = lastId + 1
            /\ committed' = committed \o AsLog(store' \ store)
            /\ ops' = [ops EXCEPT ![r].appended = @ \cup {row.id : row \in store' \ store}]
            /\ pc' = [pc EXCEPT ![r] = "PERSISTED"]
            /\ UNCHANGED <<local, conns>>
       ELSE /\ local' = [local EXCEPT ![r].exc = outcome]
            /\ pc' = [pc EXCEPT ![r] = "FAULTED"]
            /\ ops' = [ops EXCEPT ![r].fault = outcome]
            /\ conns' = [conns EXCEPT ![r] = @ + 1]
            /\ UNCHANGED <<store, lastId, committed>>
    /\ UNCHANGED <<req, result, http>>

\* generate_response: the except branch for an exception of save_to_history
\* (and the answer).  The connection the failed call left open is closed only
\* when the interpreter finalizes the unreachable object: at the end of the
\* handler under reference counting, at some later collection otherwise.
Catch(r, finalized) ==
    /\ pc[r] = "FAULTED"
    /\ result' = [result EXCEPT ![r] = [status |-> "error", message |-> local[r].exc]]
    /\ pc' = [pc EXCEPT ![r] = "ERROR"]
    /\ http' = [http EXCEPT ![r] = Respond(result'[r])]
    /\ conns' = [conns EXCEPT ![r] = IF finalized THEN 0 ELSE @]
    /\ UNCHANGED <<store, lastId, req, local, committed, ops>>

\* The interpreter's collector finalizes a connection object that a finished
\* request left open.
Finalize(r) ==
    /\ pc[r] = "ERROR"
    /\ conns[r] > 0
    /\ conns' = [conns EXCEPT ![r] = 0]
    /\ UNCHANGED <<store, lastId, pc, req, local, result, http, committed, ops>>

\* generate_response: the success return, and generate()'s answer
Return(r) ==
    /\ pc[r] = "PERSISTED"
    /\ result' = [result EXCEPT ![r] =
          [status |-> "ok", user_id |-> local[r].user_id,
           session_id |-> local[r].session_id, response |-> local[r].text]]
    /\ pc' = [pc EXCEPT ![r] = "RESPONDED"]
    /\ http' = [http EXCEPT ![r] = Respond(result'[r])]
    /\ UNCHANGED <<store, lastId, req, local, committed, ops, conns>>

Next ==
    \E r \in Reqs :
        \/ home(r)
        \/ \E data \in Bodies : generate(r, data)
        \/ Filter(r)
        \/ Contextualize(r)
        \/ \E outcome \in ModelOutcomes : CallModel(r, outcome)
        \/ \E outcome \in StoreOutcomes : Persist(r, outcome)
        \/ \E finalized \in BOOLEAN : Catch(r, finalized)
        \/ Finalize(r)
        \/ Return(r)

Spec == Init /\ [][Next]_vars

\* Each accepted request is run to its return by the worker the host gave it:
\* the handler's next statement is eventually executed, the model call
\* eventually returns or raises, and a store operation eventually completes.
\* Nothing obliges a client to send a request.
FairSpec ==
    /\ Spec
    /\ \A r \in Reqs :
          /\ WF_vars(Filter(r))
          /\ WF_vars(Contextualize(r))
          /\ WF_vars(\E outcome \in ModelOutcomes : CallModel(r, outcome))
          /\ WF_vars(\E outcome \in StoreOutcomes : Persist(r, outcome))
          /\ WF_vars(\E finalized \in BOOLEAN : Catch(r, finalized))
          /\ WF_vars(Return(r))

-----------------------------------------------------------------------------
(* Vocabulary of the properties *)

Posted(r)  == req[r].method = "POST"
Prompt(r)  == req[r].data.prompt

\* The query holds keyword kw at some position, compared letter by letter
\* without regard to case.
HoldsAnyCase(query, kw) ==
    \E i \in 1..(Len(query) - Len(kw) + 1) :
        \A j \in 1..Len(kw) :
            \/ CharAt(query, i + j - 1) = CharAt(kw, j)
            \/ \E u \in 1..Len(UpperCase) :
                  /\ CharAt(query, i + j - 1) = CharAt(UpperCase, u)
                  /\ CharAt(kw, j) = CharAt(LowerCase, u)

Denylist == {"hack", "crack", "bypass", "phish", "exploit", "malware",
             "keylogger", "unauthorized", "unauthorised", "steal", "breach"}

Denylisted(query) == \E kw \in Denylist : HoldsAnyCase(query, kw)

\* A word in capitals, and with capitals at the odd positions only.
RECURSIVE Capitals(_, _)
Capitals(word, oddOnly) ==
    IF word = "" THEN ""
    ELSE LET c  == CharAt(word, 1)
             up == IF \E u \in 1..Len(LowerCase) : CharAt(LowerCase, u) = c
                   THEN CharAt(UpperCase, CHOOSE u \in 1..Len(LowerCase) : CharAt(LowerCase, u) = c)
                   ELSE c
             rest == SubSeq(word, 2, Len(word))
         IN  up \o (IF oddOnly /\ rest # ""
                    THEN CharAt(rest, 1) \o Capitals(SubSeq(rest, 2, Len(rest)), TRUE)
                    ELSE Capitals(rest, oddOnly))

\* Every denylisted word in three casings, alone and inside a sentence.
Probes ==
    UNION { {w, "please " \o w \o " it", "x" \o w} :
              w \in UNION {{kw, Capitals(kw, FALSE), Capitals(kw, TRUE)} : kw \in Denylist} }

\* The filter flags every probe (each holds a denylisted word in some casing).
FilterFlagsEveryProbe ==
    \A q \in Probes : Denylisted(q) /\ _is_malicious_query(q)

\* The prompts of the model that hold a denylisted word in some casing.
DenylistedPrompts == {p \in Prompts : Denylisted(p)}

Refusal == [status |-> "blocked",
            message |-> "I can't assist with unauthorized or harmful activities."]

\* The step taken is a step of request r.
StepOf(r) == pc'[r] # pc[r]

\* C1 (state part): the filter flags every denylisted word in every casing; a
\* posted request whose query holds a denylisted word, once past the filter, is
\* blocked with the fixed refusal and has read nothing, called nothing and
\* appended nothing.
BlockedTouchesNothing ==
    /\ FilterFlagsEveryProbe
    /\ \A r \in Reqs :
        (Posted(r) /\ Prompt(r) \in DenylistedPrompts /\ pc[r] \notin {"idle", "RECEIVED"}) =>
            /\ pc[r] = "BLOCKED"
            /\ result[r] = Refusal
            /\ ops[r].reads = 0
            /\ ops[r].calls = 0
            /\ ops[r].appended = {}

\* C1 (step part): no step of such a request changes the store.
BlockedStepsKeepStore ==
    \A r \in Reqs :
        (StepOf(r) /\ Posted(r)' /\ Prompt(r)' \in DenylistedPrompts) =>
            /\ store' = store
            /\ lastId' = lastId

\* C1: every query holding a denylisted substring in any letter case is
\* answered 'blocked' with the fixed refusal message, with zero store appends,
\* zero store reads and zero model calls; the store is the same before and
\* after the request's steps.
C1_BlockedLeavesStoreAlone ==
    /\ []BlockedTouchesNothing
    /\ [][BlockedStepsKeepStore]_vars

C1_Witness ==
    \E r \in Reqs :
        /\ pc[r] = "BLOCKED"
        /\ Prompt(r) = "How to HACK wifi"
        /\ ops[r].filters = 1
        /\ http[r].code = 400
        /\ store # {}

\* The row request r appended, when it appended exactly one.
Appended(r) == {row \in store : row.id \in ops[r].appended}

\* C2 (state part): a call that returned 'ok' appended exactly one row, and the
\* row carries the request's keys, the input query and the extracted text,
\* which is the text in the result.
OkAppendedItsExchange ==
    \A r \in Reqs :
        result[r].status = "ok" =>
            /\ Cardinality(ops[r].appended) = 1
            /\ \E row \in Appended(r) :
                  /\ row.user_id = local[r].user_id
                  /\ row.session_id = local[r].session_id
                  /\ row.user_id = Get(req[r].data, "user_id", "anonymous")
                  /\ row.session_id = Get(req[r].data, "session_id", "default_session")
                  /\ row.query = Prompt(r)
                  /\ row.response = local[r].text
                  /\ row.response = result[r].response
                  /\ result[r].user_id = row.user_id
                  /\ result[r].session_id = row.session_id

\* C2 (step part): the append of a request adds one row and keeps every other
\* row as it was; no other step of the request touches the store.
AppendAddsOneRow ==
    \A r \in Reqs :
        StepOf(r) =>
            IF pc'[r] = "PERSISTED"
            THEN /\ store \subseteq store'
                 /\ Cardinality(store' \ store) = 1
                 /\ committed' = committed \o AsLog(store' \ store)
            ELSE store' = store

\* C2: every generate_response call that returns 'ok' has appended exactly one
\* new record, with the request's user_id and session_id, the input query and
\* the extracted model text (the text returned); the call adds or changes no
\* other record.
C2_OkAppendsExactlyOne ==
    /\ []OkAppendedItsExchange
    /\ [][AppendAddsOneRow]_vars

C2_Witness ==
    \E r \in Reqs :
        /\ pc[r] = "RESPONDED"
        /\ result[r].status = "ok"
        /\ result[r].response = "<response>"
        /\ Cardinality(store) > 6

\* C3 (state part): a request whose model call raised ends in ERROR with the
\* exception's text as message and has appended nothing; a request that has
\* appended made one model call, which returned.
FailedCallIsErrorWithoutRecord ==
    \A r \in Reqs :
        /\ ops[r].failure # None =>
              /\ pc[r] = "ERROR"
              /\ result[r] = [status |-> "error", message |-> ops[r].failure]
              /\ http[r] = [code |-> 400, error |-> ops[r].failure]
              /\ ops[r].appended = {}
        /\ ops[r].appended # {} =>
              /\ ops[r].calls = 1
              /\ ops[r].failure = None
              /\ local[r].text # None

\* C3 (step part): the store changes only in the append step of a request
\* whose model call returned.
OnlySuccessfulCallsWrite ==
    store' # store =>
        \E r \in Reqs :
            /\ pc[r] = "CALLED"
            /\ pc'[r] = "PERSISTED"
            /\ ops[r].calls = 1
            /\ ops[r].failure = None

\* C3: when the model call of a non-blocked request fails, generate_response
\* catches the failure and returns 'error' with the failure's description; the
\* failure does not leave generate_response (the route answers 400 from the
\* returned dict), and no record is appended: records come only from requests
\* whose model call succeeded.
C3_ModelFailureIsCaught ==
    /\ []FailedCallIsErrorWithoutRecord
    /\ [][OnlySuccessfulCallsWrite]_vars

C3_Witness ==
    \E r \in Reqs :
        /\ pc[r] = "ERROR"
        /\ ops[r].failure = "quota exceeded"
        /\ http[r].code = 400
        /\ \E q \in Reqs : q # r /\ pc[q] = "RESPONDED"

\* Every user_id and session_id a request can carry.
AllUsers    == {"anonymous", "alice"}
AllSessions == {"default_session", "s1"}

\* The part of a commit log that belongs to one session, in commit order.
SessionLog(log, user_id, session_id) ==
    LET Mine(row) == row.user_id = user_id /\ row.session_id = session_id
    IN  SelectSeq(log, Mine)

\* The last n entries of a sequence (all of them when it has fewer).
LastN(seq, n) ==
    IF Len(seq) <= n THEN seq ELSE SubSeq(seq, Len(seq) - n + 1, Len(seq))

Pairs(rows) == [i \in 1..Len(rows) |-> [query |-> rows[i].query, response |-> rows[i].response]]
Ids(rows)   == [i \in 1..Len(rows) |-> rows[i].id]

RecentIsLastFive ==
    \A u \in AllUsers, s \in AllSessions :
        LET written == SessionLog(committed, u, s)
            k       == Len(written)
            got     == get_session_history(store, u, s, 5)
        IN  /\ Len(got) = IF k < 5 THEN k ELSE 5
            /\ got = Pairs(LastN(written, 5))
            /\ k = 0 => got = <<>>

\* C4: after k records were appended for a session, with appends for other
\* sessions in between, get_session_history(user_id, session_id, limit=5) is
\* the last min(k,5) of them, oldest first in their write order; for k = 0 it
\* is the empty sequence.
C4_RecentIsLastFiveInWriteOrder == []RecentIsLastFive

C4_Witness ==
    /\ Len(SessionLog(committed, "alice", "s1")) = 7
    /\ Len(committed) = 8
    /\ get_session_history(store, "alice", "s1", 5)[1] = [query |-> "q3", response |-> "r3"]
    /\ get_session_history(store, "alice", "s1", 5)[5].query = "hello"
    /\ get_session_history(store, "alice", "default_session", 5) = <<>>

\* The row of the table with the given id.
RowOf(id) == CHOOSE row \in store : row.id = id

HistoryIsOwnSession ==
    \A r \in Reqs :
        ops[r].reads > 0 =>
            /\ \A i \in 1..Len(ops[r].read) :
                  /\ \E row \in store : row.id = ops[r].read[i]
                  /\ RowOf(ops[r].read[i]).user_id = local[r].user_id
                  /\ RowOf(ops[r].read[i]).session_id = local[r].session_id
            /\ Len(local[r].history) = Len(ops[r].read)
            /\ \A i \in 1..Len(ops[r].read) :
                  /\ local[r].history[i].query = RowOf(ops[r].read[i]).query
                  /\ local[r].history[i].response = RowOf(ops[r].read[i]).response
            /\ local[r].full_prompt = full_prompt(local[r].history, local[r].query)

\* C5: whatever the interleaving of requests appending to different sessions,
\* the rows a request's history read returned all carry the request's own
\* user_id and session_id, the history and the prompt context are made of
\* those rows alone, and so a row of a session that shares only the user_id
\* or only the session_id never shows up.
C5_HistoryHoldsOwnSessionOnly == []HistoryIsOwnSession

C5_Witness ==
    \E r \in Reqs :
        /\ local[r].user_id = "anonymous"
        /\ local[r].session_id = "s1"
        /\ Len(ops[r].read) = 1
        /\ \E row \in store : row.user_id = "anonymous" /\ row.session_id = "default_session"
        /\ \E row \in store : row.user_id = "alice" /\ row.session_id = "s1"

\* The keys of the session request r works on.
SameSession(r1, r2) ==
    /\ local[r1].user_id = local[r2].user_id
    /\ local[r1].session_id = local[r2].session_id

ReadsAreCommitOrdered ==
    /\ \A i \in 1..(Len(committed) - 1) : committed[i].id < committed[i + 1].id
    /\ store = {committed[i] : i \in 1..Len(committed)}
    /\ \A r \in Reqs :
          ops[r].reads > 0 =>
              LET mine == SubSeq(SessionLog(committed, local[r].user_id, local[r].session_id),
                                 1, ops[r].seen)
              IN  /\ ops[r].read = Ids(LastN(mine, 5))
                  /\ local[r].history = Pairs(LastN(mine, 5))
                  /\ \A i, j \in 1..Len(ops[r].read) :
                        i < j => ops[r].read[i] < ops[r].read[j]
    /\ \A r1, r2 \in Reqs :
          (ops[r1].reads > 0 /\ ops[r2].reads > 0 /\ SameSession(r1, r2)
              /\ ops[r1].seen <= ops[r2].seen) =>
              \A i \in 1..Len(ops[r1].read) :
                  \/ \E j \in 1..Len(ops[r2].read) : ops[r2].read[j] = ops[r1].read[i]
                  \/ \A j \in 1..Len(ops[r2].read) : ops[r1].read[i] < ops[r2].read[j]

\* C6: whatever the interleaving of reads and appends of requests on the same
\* session, ids follow the commit order, and every read returns the session's
\* rows committed before it, the last five of them, in commit order (ascending
\* id, oldest first).  Between two reads no committed row is lost, repeated or
\* reordered: a row of the earlier read is in the later one unless it is older
\* than everything the later read returned.
C6_ReadsFollowCommitOrder == []ReadsAreCommitOrdered

C6_Witness ==
    \E r1, r2 \in Reqs :
        /\ r1 # r2
        /\ SameSession(r1, r2)
        /\ local[r1].user_id = "alice"
        /\ ops[r1].read = <<1, 3, 4, 5, 6>>
        /\ ops[r2].read = <<3, 4, 5, 6, 7>>
        /\ pc[r1] = "PERSISTED"
        /\ pc[r2] = "CONTEXTUALIZED"

NonEmptyPrompt(r) == Posted(r) /\ Prompt(r) \notin {None, ""}

AnswerIsByStatus ==
    \A r \in Reqs :
        NonEmptyPrompt(r) =>
            IF pc[r] \in Terminal
            THEN /\ result[r].status \in {"ok", "blocked", "error"}
                 /\ result[r].status = "ok" =>
                       http[r] = [code |-> 200, response |-> result[r].response]
                 /\ result[r].status \in {"blocked", "error"} =>
                       http[r] = [code |-> 400, error |-> result[r].message]
                 /\ http[r].code = 200 => result[r].status = "ok"
                 /\ pc[r] = "BLOCKED" <=> result[r].status = "blocked"
                 /\ pc[r] = "ERROR" <=> result[r].status = "error"
            ELSE /\ http[r] = NoHttp
                 /\ result[r] = NoResult

\* C7: for a POST with a non-empty prompt the answer follows from the status
\* generate_response returned: 'ok' gives 200 with a payload holding only the
\* response text, 'blocked' and 'error' give 400 with the returned message; no
\* other status gives 200, and there is no answer before the call returned.
C7_AnswerFollowsStatus == []AnswerIsByStatus

C7_Witness ==
    \E r1, r2 \in Reqs :
        /\ NonEmptyPrompt(r1) /\ NonEmptyPrompt(r2)
        /\ http[r1] = [code |-> 200, response |-> "hi"]
        /\ http[r2] = [code |-> 400, error |-> "database is locked"]

\* C8 (state part): a POST whose prompt is empty or missing is answered 400
\* with the fixed payload and generate_response was not entered: no filter
\* run, no read, no model call, no append, no result dict.
EmptyPromptIsRejectedAtOnce ==
    \A r \in Reqs :
        (Posted(r) /\ Prompt(r) \in {None, ""}) =>
            /\ pc[r] = "INPUT_ERROR"
            /\ http[r] = [code |-> 400, error |-> "No prompt provided"]
            /\ result[r] = NoResult
            /\ local[r] = NoLocal
            /\ ops[r] = NoOps

\* C8 (step part): the step of such a request leaves the store as it was.
EmptyPromptKeepsStore ==
    \A r \in Reqs :
        (StepOf(r) /\ Posted(r)' /\ Prompt(r)' \in {None, ""}) =>
            /\ store' = store
            /\ lastId' = lastId
            /\ committed' = committed

\* C8: a POST with an empty or missing prompt gets 400 and the fixed error
\* payload without generate_response being invoked: the filter is not
\* evaluated, the store is neither read nor appended to, the model is not
\* called.
C8_EmptyPromptNeverReachesOrchestrator ==
    /\ []EmptyPromptIsRejectedAtOnce
    /\ [][EmptyPromptKeepsStore]_vars

C8_Witness ==
    \E r1, r2 \in Reqs :
        /\ Posted(r1) /\ Prompt(r1) = ""
        /\ Posted(r2) /\ Prompt(r2) = None
        /\ pc[r1] = "INPUT_ERROR"
        /\ pc[r2] = "INPUT_ERROR"

\* Number of rows of a table, in all and for one session.
CountAll(tbl) == Cardinality(tbl)
Count(tbl, user_id, session_id) ==
    Cardinality({row \in tbl : row.user_id = user_id /\ row.session_id = session_id})

\* C9 (state part): a POST answered 200 has added exactly one row, in its own
\* session; a POST of 'hello' to a session without history whose model call
\* returned 'hi' (and whose INSERT did not fail) is answered 200 with 'hi'.
SuccessfulPostHasOneRow ==
    \A r \in Reqs :
        /\ (Posted(r) /\ http[r].code = 200) =>
              /\ Cardinality(ops[r].appended) = 1
              /\ \A id \in ops[r].appended :
                    /\ \E row \in store : row.id = id
                    /\ RowOf(id).user_id = Get(req[r].data, "user_id", "anonymous")
                    /\ RowOf(id).session_id = Get(req[r].data, "session_id", "default_session")
        /\ (Posted(r) /\ Prompt(r) = "hello" /\ pc[r] \in Terminal
              /\ ops[r].reads = 1 /\ ops[r].read = <<>>
              /\ ops[r].failure = None /\ ops[r].fault = None /\ local[r].text = "hi") =>
              /\ http[r] = [code |-> 200, response |-> "hi"]
              /\ Cardinality(ops[r].appended) = 1

\* C9 (step part): from any table, the append of a request raises the total
\* count by one and the count of the request's session by one and keeps the
\* count of every other session; no other step of the request changes a count.
AppendRaisesOwnCountByOne ==
    \A r \in Reqs :
        StepOf(r) =>
            LET mine(u, s) == u = Get(req'[r].data, "user_id", "anonymous")
                              /\ s = Get(req'[r].data, "session_id", "default_session")
                by == IF pc'[r] = "PERSISTED" THEN 1 ELSE 0
            IN  /\ CountAll(store') = CountAll(store) + by
                /\ \A u \in AllUsers, s \in AllSessions :
                      Count(store', u, s) = Count(store, u, s) + (IF mine(u, s) THEN by ELSE 0)

EmptyHistoryGivesBarePrompt ==
    \A r \in Reqs :
        (ops[r].reads > 0 /\ ops[r].read = <<>>) =>
            /\ local[r].history = <<>>
            /\ context_text(local[r].history) = ""
            /\ local[r].full_prompt =
                  "Here is the conversation so far:\n" \o "" \o "\n\n"
                      \o "Now the user asks: " \o Prompt(r)
            /\ Contains(local[r].full_prompt, "Here is the conversation so far:")
            /\ Contains(local[r].full_prompt, "Now the user asks: " \o Prompt(r))
            /\ ops[r].calls > 0 => ops[r].sent = local[r].full_prompt

\* C10: for a request whose session has no history the context is the empty
\* string, and the prompt passed to the model is the preamble line, the empty
\* context, a blank line and 'Now the user asks: ' followed by the query.
C10_EmptyHistoryPrompt == []EmptyHistoryGivesBarePrompt

C10_Witness ==
    \E r \in Reqs :
        /\ ops[r].calls = 1
        /\ ops[r].read = <<>>
        /\ ops[r].sent = "Here is the conversation so far:\n\n\nNow the user asks: hello"
        /\ \E q \in Reqs : Len(ops[q].read) = 5

-----------------------------------------------------------------------------
(* C11 *)

\* text.split("\n"): the lines of a text.
RECURSIVE SplitLines(_)
SplitLines(text) ==
    IF \E i \in 1..Len(text) : CharAt(text, i) = "\n"
    THEN LET i == CHOOSE k \in 1..Len(text) :
                     /\ CharAt(text, k) = "\n"
                     /\ \A j \in 1..(k - 1) : CharAt(text, j) # "\n"
         IN <<SubSeq(text, 1, i - 1)>> \o SplitLines(SubSeq(text, i + 1, Len(text)))
    ELSE <<text>>

\* Records to format: short and long fields, an empty response, repeats.
ProbeRecords ==
    << [query |-> "q1", response |-> "r1"],
       [query |-> "hello", response |-> "hi"],
       [query |-> "what is an index?", response |-> ""],
       [query |-> "hello", response |-> "<response>"],
       [query |-> "q5", response |-> "a much longer answer, with punctuation: done."] >>

MaxProbe == Len(ProbeRecords)

\* Every run of consecutive probe records, of each length from 0 to 5.
ProbeHistories == {SubSeq(ProbeRecords, i, j) : i \in 1..(MaxProbe + 1), j \in 0..MaxProbe}

\* The context of a probe history, read back line by line, is the labelled
\* pair of each record in input order, whole.
ContextHasOneExchangePerRecord ==
    \A h \in ProbeHistories :
        LET text  == context_text(h)
            lines == IF h = <<>> THEN <<>> ELSE SplitLines(text)
        IN /\ h = <<>> => text = ""
           /\ Len(lines) = 2 * Len(h)
           /\ \A i \in 1..Len(h) :
                 /\ lines[2 * i - 1] = "User: " \o h[i].query
                 /\ lines[2 * i] = "Assistant: " \o h[i].response

\* The labelled exchanges of a history, built from its newest record backwards.
RECURSIVE LabelledExchanges(_)
LabelledExchanges(h) ==
    IF h = <<>> THEN ""
    ELSE LET last == h[Len(h)]
             pair == "User: " \o last.query \o "\n" \o "Assistant: " \o last.response
         IN IF Len(h) = 1 THEN pair
            ELSE LabelledExchanges(SubSeq(h, 1, Len(h) - 1)) \o "\n" \o pair

ContextIsBuiltFromRows ==
    /\ ContextHasOneExchangePerRecord
    /\ \A r \in Reqs :
          ops[r].reads > 0 =>
             /\ Len(local[r].history) = Len(ops[r].read)
             /\ Len(local[r].history) <= 5
             /\ \A i \in 1..Len(ops[r].read) :
                   local[r].history[i] = [query    |-> RowOf(ops[r].read[i]).query,
                                          response |-> RowOf(ops[r].read[i]).response]
             /\ local[r].full_prompt =
                   "Here is the conversation so far:\n" \o LabelledExchanges(local[r].history)
                       \o "\n\n" \o "Now the user asks: " \o Prompt(r)
             /\ ops[r].calls > 0 => ops[r].sent = local[r].full_prompt

\* C11: for every history of n records (0 <= n <= 5) read for a request, the
\* context in the prompt is exactly n labelled exchanges ('User: <query>' then
\* 'Assistant: <response>'), one per record read, in the order of the history
\* (oldest first), nothing cut or dropped; the full prompt is the preamble,
\* that context, a blank line and the new query, and it is what the model gets.
C11_ContextIsEveryRecordInOrder == []ContextIsBuiltFromRows

C11_Witness ==
    \E r, q \in Reqs :
        /\ ops[r].calls = 1
        /\ ops[r].read = <<1, 3, 4, 5, 6>>
        /\ ops[r].sent = "Here is the conversation so far:\n"
                           \o "User: q1\nAssistant: r1\nUser: q2\nAssistant: r2\n"
                           \o "User: q3\nAssistant: r3\nUser: q4\nAssistant: r4\n"
                           \o "User: q5\nAssistant: r5\n\nNow the user asks: hello"
        /\ ops[q].calls = 1
        /\ Len(ops[q].read) = 1
        /\ SplitLines(context_text(local[q].history)) = <<"User: x1", "Assistant: y1">>

-----------------------------------------------------------------------------
(* C12 *)

\* The table is the commit log: one row per id, in rising id order.
StoreIsItsLog ==
    /\ store = {committed[i] : i \in 1..Len(committed)}
    /\ Cardinality(store) = Len(committed)
    /\ \A i, j \in 1..Len(committed) : i < j => committed[i].id < committed[j].id
    /\ \A row \in store : row.id <= lastId

\* A step keeps every row as it is; a step that changes the table is the
\* append of one request and adds one row whose id is above every id present.
StoreStepIsAppend ==
    /\ store \subseteq store'
    /\ Len(committed') >= Len(committed)
    /\ SubSeq(committed', 1, Len(committed)) = committed
    /\ store' # store =>
          /\ Cardinality(store' \ store) = 1
          /\ \A new \in store' \ store :
                /\ \A old \in store : new.id > old.id
                /\ new.id > lastId
                /\ committed' = committed \o <<new>>
          /\ \E r \in Reqs : pc[r] = "CALLED" /\ pc'[r] = "PERSISTED"

\* The history read and GET / leave the table as it is.
ReadsKeepStore ==
    \A r \in Reqs :
        (StepOf(r) /\ pc'[r] \in {"HEALTH", "CONTEXTUALIZED"}) =>
            /\ store' = store
            /\ lastId' = lastId
            /\ committed' = committed

\* C12: the store is append-only in every reachable state: only the append
\* changes it, adding one record with a store-assigned id greater than every
\* id present; a written record never changes and is never deleted, so the
\* contents at an earlier time are a prefix of the contents at any later
\* time; history reads and GET / leave the store unchanged.
C12_StoreIsAppendOnly ==
    /\ []StoreIsItsLog
    /\ [][StoreStepIsAppend]_vars
    /\ [][ReadsKeepStore]_vars

C12_Witness ==
    \E r, q \in Reqs :
        /\ pc[r] = "HEALTH"
        /\ pc[q] = "RESPONDED"
        /\ ops[q].read = <<1, 3, 4, 5, 6>>
        /\ Len(committed) = 7
        /\ committed[7] = Row(7, "alice", "s1", "hello", "hi")
        /\ SubSeq(committed, 1, 6) = EarlierRows

-----------------------------------------------------------------------------
(* C13 *)

\* A request whose append raised: the model had answered, nothing was
\* written for it, and it is never given 'ok' or 200; once answered it has
\* status 'error' with the storage error's text, sent with 400.
StorageFaultIsReported ==
    \A r \in Reqs :
        ops[r].fault # None =>
            /\ ops[r].calls = 1
            /\ ops[r].failure = None
            /\ local[r].text # None
            /\ ops[r].appended = {}
            /\ pc[r] \in {"FAULTED", "ERROR"}
            /\ result[r].status # "ok"
            /\ http[r].code # 200
            /\ pc[r] = "ERROR" =>
                  /\ result[r] = [status |-> "error", message |-> ops[r].fault]
                  /\ http[r] = [code |-> 400, error |-> ops[r].fault]

\* A request told 'ok' or answered 200 has its exchange in the table.
OkMeansRecorded ==
    \A r \in Reqs :
        (Posted(r) /\ (result[r].status = "ok" \/ http[r].code = 200)) =>
            /\ ops[r].fault = None
            /\ \E row \in store :
                  /\ row.id \in ops[r].appended
                  /\ row.query = Prompt(r)
                  /\ row.response = local[r].text

\* The step in which the append raises writes nothing and answers nothing.
FaultStepWritesNothing ==
    \A r \in Reqs :
        (ops[r].fault = None /\ ops'[r].fault # None) =>
            /\ pc[r] = "CALLED"
            /\ store' = store
            /\ committed' = committed
            /\ result'[r] = NoResult
            /\ http'[r] = NoHttp

\* C13: a storage fault during append never fails silently: a request whose
\* append failed after the model call succeeded does not end with status
\* 'ok' and is not answered 200, so no caller is told the exchange succeeded
\* while no record was persisted.
C13_StorageFaultIsNeverSilent ==
    /\ []StorageFaultIsReported
    /\ []OkMeansRecorded
    /\ [][FaultStepWritesNothing]_vars

C13_Witness ==
    \E r \in Reqs :
        /\ ops[r].fault = "database is locked"
        /\ local[r].text = "hi"
        /\ pc[r] = "ERROR"
        /\ result[r] = [status |-> "error", message |-> "database is locked"]
        /\ http[r] = [code |-> 400, error |-> "database is locked"]
        /\ store = {}

-----------------------------------------------------------------------------
(* C14 *)

\* A request that ended in an input error, a policy block or an upstream failure.
Failed(r) ==
    \/ pc[r] \in {"INPUT_ERROR", "BLOCKED"}
    \/ pc[r] = "ERROR" /\ ops[r].failure # None

\* A failed request wrote no row, used no id and holds no connection: the
\* table and the id sequence are those of the other requests alone.
FailedRequestLeftNoTrace ==
    /\ \A r \in Reqs :
          Failed(r) =>
             /\ ops[r].appended = {}
             /\ conns[r] = 0
             /\ http[r].code = 400
    /\ store = {committed[i] : i \in 1..Len(committed)}
    /\ Len(committed) = lastId
    /\ \A i \in 1..Len(committed) :
          \/ i <= Len(EarlierRows) /\ committed[i] = EarlierRows[i]
          \/ \E q \in Reqs : ~Failed(q) /\ ops[q].appended = {committed[i].id}

\* Whatever failed, every other request can take its next step: a new one is
\* accepted with any body, one in progress can go on, its model call can
\* answer and its append can commit.
OthersAreServed ==
    \A r, q \in Reqs :
        (Failed(r) /\ q # r) =>
            /\ Arrives(q) => \A data \in Bodies : ENABLED generate(q, data)
            /\ pc[q] = "RECEIVED" => ENABLED Filter(q)
            /\ pc[q] = "FILTERED" => ENABLED Contextualize(q)
            /\ pc[q] = "CONTEXTUALIZED" =>
                  \A outcome \in ModelOutcomes : ENABLED CallModel(q, outcome)
            /\ pc[q] = "CALLED" => ENABLED Persist(q, "commit")
            /\ pc[q] = "PERSISTED" => ENABLED Return(q)

\* A step of one request changes no other request, and only the commit of an
\* append changes the table, the id sequence or the commit log.
StepIsLocal ==
    \A r \in Reqs :
        StepOf(r) =>
            /\ \A q \in Reqs \ {r} :
                  /\ pc'[q] = pc[q]
                  /\ req'[q] = req[q]
                  /\ local'[q] = local[q]
                  /\ result'[q] = result[q]
                  /\ http'[q] = http[q]
                  /\ ops'[q] = ops[q]
                  /\ conns'[q] = conns[q]
            /\ pc'[r] # "PERSISTED" =>
                  /\ store' = store
                  /\ lastId' = lastId
                  /\ committed' = committed

\* C14: per-request failures are local to the request: after a request ends
\* in an input error, a policy block or an upstream-failure error the store
\* holds exactly the records it held before that request, and every later
\* request is still served and can complete with status 'ok' as if the failed
\* request had never been made.
C14_FailuresAreLocal ==
    /\ []FailedRequestLeftNoTrace
    /\ []OthersAreServed
    /\ [][StepIsLocal]_vars

C14_Witness ==
    \E r, q \in Reqs :
        /\ r < q
        /\ pc[r] = "ERROR"
        /\ ops[r].failure = "quota exceeded"
        /\ http[r] = [code |-> 400, error |-> "quota exceeded"]
        /\ pc[q] = "RESPONDED"
        /\ result[q].status = "ok"
        /\ http[q] = [code |-> 200, response |-> "hi"]
        /\ ops[q].read = <<1, 3, 4, 5, 6>>
        /\ ops[q].appended = {7}
        /\ Len(committed) = 7

-----------------------------------------------------------------------------
(* C15 *)

\* The keys a request is to be processed with: those of its body, and the
\* fixed names for the ones its body leaves out.
UserOf(r)    == IF req[r].data.user_id = None THEN "anonymous" ELSE req[r].data.user_id
SessionOf(r) == IF req[r].data.session_id = None THEN "default_session"
                ELSE req[r].data.session_id

Processed(r) == Posted(r) /\ pc[r] \notin {"idle", "INPUT_ERROR"}

\* The orchestrator's keys, the rows read and the row appended are those of
\* (UserOf, SessionOf).
DefaultKeysAreUsed ==
    \A r \in Reqs :
        Processed(r) =>
            /\ local[r].user_id = UserOf(r)
            /\ local[r].session_id = SessionOf(r)
            /\ \A i \in 1..Len(ops[r].read) :
                  /\ RowOf(ops[r].read[i]).user_id = UserOf(r)
                  /\ RowOf(ops[r].read[i]).session_id = SessionOf(r)
            /\ \A id \in ops[r].appended :
                  /\ RowOf(id).user_id = UserOf(r)
                  /\ RowOf(id).session_id = SessionOf(r)
                  /\ RowOf(id).query = Prompt(r)

\* The history read of a request returns the newest rows written under its
\* keys, so it returns the row of every earlier request with the same keys
\* that fewer than five newer rows have pushed out.
ReadIsByThoseKeys ==
    \A q \in Reqs :
        (pc[q] = "FILTERED" /\ pc'[q] = "CONTEXTUALIZED") =>
            /\ ops'[q].read = Ids(LastN(SessionLog(committed, UserOf(q), SessionOf(q)), 5))
            /\ \A r \in Reqs \ {q} :
                  (Processed(r) /\ UserOf(r) = UserOf(q) /\ SessionOf(r) = SessionOf(q)) =>
                     \A id \in ops[r].appended :
                        \/ \E i \in 1..Len(ops'[q].read) :
                              /\ ops'[q].read[i] = id
                              /\ local'[q].history[i] =
                                    [query |-> Prompt(r), response |-> local[r].text]
                        \/ Cardinality({row \in store : /\ row.user_id = UserOf(q)
                                                        /\ row.session_id = SessionOf(q)
                                                        /\ row.id > id}) >= 5

\* C15: a POST / that omits user_id is processed with user_id 'anonymous' and
\* one that omits session_id with session_id 'default_session': its history
\* read and its appended record use exactly those keys, so its record is
\* returned by a later history read for ('anonymous', 'default_session').
C15_OmittedKeysTakeDefaults ==
    /\ []DefaultKeysAreUsed
    /\ [][ReadIsByThoseKeys]_vars

C15_Witness ==
    \E r, q \in Reqs :
        /\ req[r].data = [prompt |-> "hello", user_id |-> None, session_id |-> None]
        /\ req[q].data = [prompt |-> "hello", user_id |-> None, session_id |-> None]
        /\ pc[r] = "RESPONDED"
        /\ ops[r].read = <<>>
        /\ ops[r].appended = {7}
        /\ RowOf(7) = Row(7, "anonymous", "default_session", "hello", "hi")
        /\ ops[q].read = <<7>>
        /\ local[q].history = <<[query |-> "hello", response |-> "hi"]>>
        /\ get_session_history(store, "anonymous", "default_session", 5) = local[q].history

-----------------------------------------------------------------------------
(* C16 *)

\* The positions a request can move to from each position.  The model call
\* is made in the step that leaves CONTEXTUALIZED; a request is at FAULTED
\* while the exception of a failed append travels to the except branch.
Successors(at) ==
    CASE at = "idle"           -> {"HEALTH", "INPUT_ERROR", "RECEIVED"}
      [] at = "RECEIVED"       -> {"FILTERED", "BLOCKED"}
      [] at = "FILTERED"       -> {"CONTEXTUALIZED"}
      [] at = "CONTEXTUALIZED" -> {"CALLED", "ERROR"}
      [] at = "CALLED"         -> {"PERSISTED", "FAULTED"}
      [] at = "FAULTED"        -> {"ERROR"}
      [] at = "PERSISTED"      -> {"RESPONDED"}
      [] OTHER                 -> {}

\* Each step moves a request along the order, and does at that place the
\* one thing that belongs there.
StepsFollowTheOrder ==
    \A r \in Reqs :
        StepOf(r) =>
            /\ pc'[r] \in Successors(pc[r])
            /\ ops'[r].filters # ops[r].filters =>
                  /\ pc[r] = "RECEIVED"
                  /\ ops[r].reads = 0 /\ ops[r].calls = 0
            /\ ops'[r].reads # ops[r].reads =>
                  /\ pc[r] = "FILTERED"
                  /\ ops[r].filters = 1 /\ ops[r].calls = 0
            /\ ops'[r].calls # ops[r].calls =>
                  /\ pc[r] = "CONTEXTUALIZED"
                  /\ ops[r].reads = 1 /\ ops[r].appended = {}
            /\ ops'[r].appended # ops[r].appended =>
                  /\ pc[r] = "CALLED"
                  /\ ops[r].calls = 1 /\ ops[r].failure = None
                  /\ local[r].text # None
            /\ result'[r].status = "ok" =>
                  /\ pc[r] = "PERSISTED"
                  /\ ops[r].appended # {}
                  /\ \A id \in ops[r].appended : \E row \in store : row.id = id
            /\ pc'[r] = "BLOCKED" => pc[r] = "RECEIVED" /\ ops'[r].filters = 1
            /\ pc'[r] = "ERROR" => ops[r].calls = 1 \/ ops'[r].calls = 1

\* What a request has done by the time it is at a position.
PositionTellsThePast ==
    \A r \in Reqs :
        /\ ops[r].reads > 0 => ops[r].filters = 1
        /\ ops[r].calls > 0 => ops[r].reads = 1
        /\ ops[r].appended # {} => ops[r].calls = 1 /\ ops[r].failure = None
        /\ result[r].status = "ok" => ops[r].appended # {} /\ pc[r] = "RESPONDED"
        /\ pc[r] = "BLOCKED" => ops[r].filters = 1 /\ ops[r].reads = 0 /\ ops[r].calls = 0
        /\ pc[r] = "ERROR" => ops[r].calls = 1 /\ ops[r].reads = 1 /\ ops[r].filters = 1
        /\ pc[r] = "RESPONDED" =>
              /\ ops[r].filters = 1 /\ ops[r].reads = 1 /\ ops[r].calls = 1
              /\ Cardinality(ops[r].appended) = 1

\* C16: every request follows the order RECEIVED, FILTERED, CONTEXTUALIZED,
\* CALLED, PERSISTED, RESPONDED: the filter is evaluated before the history
\* read, the read happens before the model call, the append only after the
\* call returned successfully, the 'ok' result only after the append
\* committed; BLOCKED is entered only directly after the filter and ERROR
\* only after the model call was made.
C16_RequestsFollowTheStateOrder ==
    /\ []PositionTellsThePast
    /\ [][StepsFollowTheOrder]_vars

C16_Witness ==
    \E r, q \in Reqs :
        /\ pc[r] = "RESPONDED"
        /\ ops[r].filters = 1 /\ ops[r].reads = 1 /\ ops[r].calls = 1
        /\ ops[r].appended = {1}
        /\ result[r].status = "ok"
        /\ pc[q] = "BLOCKED"
        /\ ops[q].filters = 1 /\ ops[q].reads = 0 /\ ops[q].calls = 0

-----------------------------------------------------------------------------
(* C17 *)

\* Nothing is done twice for a request; an answered request made the model
\* call once, unless its prompt was empty or refused, and then never.
AtMostOneCall ==
    \A r \in Reqs :
        /\ ops[r].filters <= 1
        /\ ops[r].reads <= 1
        /\ ops[r].calls <= 1
        /\ Cardinality(ops[r].appended) <= 1
        /\ (Posted(r) /\ pc[r] \in Terminal) =>
              IF Prompt(r) \in {None, ""} \/ Prompt(r) \in DenylistedPrompts
              THEN ops[r].calls = 0 /\ ops[r].reads = 0
              ELSE ops[r].calls = 1 /\ ops[r].reads = 1
        /\ ~Posted(r) => ops[r] = NoOps

\* A request whose call failed has the error result and no record.
FailedCallEndsTheRequest ==
    \A r \in Reqs :
        ops[r].failure # None =>
            /\ pc[r] = "ERROR"
            /\ ops[r].calls = 1
            /\ ops[r].reads = 1
            /\ ops[r].appended = {}
            /\ result[r] = [status |-> "error", message |-> ops[r].failure]

\* The step in which the call fails is the step that produces the error
\* result, and an answered request does nothing more.
FailureSurfacesAtOnce ==
    \A r \in Reqs :
        /\ (ops[r].calls = 0 /\ ops'[r].calls = 1 /\ ops'[r].failure # None) =>
              /\ pc'[r] = "ERROR"
              /\ result'[r] = [status |-> "error", message |-> ops'[r].failure]
              /\ http'[r] = [code |-> 400, error |-> ops'[r].failure]
              /\ store' = store
        /\ pc[r] \in Terminal =>
              /\ pc'[r] = pc[r]
              /\ ops'[r] = ops[r]
              /\ local'[r] = local[r]
              /\ result'[r] = result[r]
              /\ http'[r] = http[r]

-----------------------------------------------------------------------------
(* C18 *)

Outcomes == {"INPUT_ERROR", "BLOCKED", "ERROR", "RESPONDED"}

\* A request in progress can take its next step whatever the other requests
\* are doing.
NobodyWaits ==
    \A r \in Reqs :
        /\ pc[r] = "RECEIVED" => ENABLED Filter(r)
        /\ pc[r] = "FILTERED" => ENABLED Contextualize(r)
        /\ pc[r] = "CONTEXTUALIZED" => ENABLED (\E outcome \in ModelOutcomes : CallModel(r, outcome))
        /\ pc[r] = "CALLED" => ENABLED (\E outcome \in StoreOutcomes : Persist(r, outcome))
        /\ pc[r] = "FAULTED" => ENABLED (\E finalized \in BOOLEAN : Catch(r, finalized))
        /\ pc[r] = "PERSISTED" => ENABLED Return(r)

\* An outcome, once reached, is the request's outcome for good.
OutcomeIsFinal ==
    \A r \in Reqs :
        pc[r] \in Outcomes => /\ pc'[r] = pc[r]
                              /\ result'[r] = result[r]
                              /\ http'[r] = http[r]

-----------------------------------------------------------------------------
(* C19 *)

\* A connection is open only after an append raised, and then one.
OpenConnectionIsOfFailedAppend ==
    \A r \in Reqs :
        /\ conns[r] \in {0, 1}
        /\ conns[r] = 1 => ops[r].fault # None /\ pc[r] \in {"FAULTED", "ERROR"}
        /\ pc[r] = "CONTEXTUALIZED" => conns[r] = 0

\* C19: a store connection is held only for the duration of one store
\* operation: each history read and each append releases its connection on
\* every exit path of the operation, failure included, so a request holds no
\* open connection once the operation is left, while it is inside the model
\* call, or after it has terminated.
C19_ConnectionHeldOnlyDuringOperation ==
    \A r \in Reqs :
        /\ pc[r] \in {"CONTEXTUALIZED", "CALLED"} => conns[r] = 0
        /\ pc[r] \in {"PERSISTED", "FAULTED"} => conns[r] = 0
        /\ pc[r] \in Terminal => conns[r] = 0

-----------------------------------------------------------------------------
(* C20 *)

\* The history read returns the last five rows of the request's session in
\* the commit log of that moment, all of them when there are at most five,
\* and the prompt is built from them.
ReadIsSnapshotOfCommitted ==
    \A r \in Reqs :
        (pc[r] = "FILTERED" /\ pc'[r] = "CONTEXTUALIZED") =>
            LET mine == SessionLog(committed, local[r].user_id, local[r].session_id)
                last == LastN(mine, 5)
            IN  /\ Len(mine) <= 5 => Ids(mine) = ops'[r].read
                /\ ops'[r].read = Ids(last)
                /\ local'[r].history = Pairs(last)
                /\ local'[r].full_prompt =
                      "Here is the conversation so far:\n" \o LabelledExchanges(Pairs(last))
                          \o "\n\n" \o "Now the user asks: " \o Prompt(r)
                /\ ops'[r].seen = Len(mine)

\* Once read, the history and the prompt stay as they are, and the prompt
\* sent to the model is that prompt.
SnapshotIsKept ==
    \A r \in Reqs :
        /\ ops[r].reads > 0 =>
              /\ ops'[r].reads = ops[r].reads
              /\ ops'[r].read = ops[r].read
              /\ local'[r].history = local[r].history
              /\ local'[r].full_prompt = local[r].full_prompt
        /\ ops'[r].calls # ops[r].calls => ops'[r].sent = local[r].full_prompt
        /\ ops[r].calls > 0 => ops'[r].sent = ops[r].sent

\* The prompt holds neither the request's own exchange nor a row committed
\* after the read, whatever id that row has.
PromptHoldsNothingLater ==
    \A r \in Reqs :
        ops[r].reads > 0 =>
            LET mine == SessionLog(committed, local[r].user_id, local[r].session_id)
            IN  /\ \A i \in 1..Len(ops[r].read) : ops[r].read[i] \notin ops[r].appended
                /\ \A i \in 1..Len(mine) :
                      i > ops[r].seen =>
                         \A j \in 1..Len(ops[r].read) : ops[r].read[j] # mine[i].id
                /\ ops[r].calls > 0 =>
                      ops[r].sent =
                         "Here is the conversation so far:\n"
                            \o LabelledExchanges(Pairs(LastN(SubSeq(mine, 1, ops[r].seen), 5)))
                            \o "\n\n" \o "Now the user asks: " \o Prompt(r)

\* C20: the history used for a request's prompt is one snapshot taken before
\* the model call.  Under any interleaving of concurrent requests of the same
\* (user_id, session_id) the prompt holds exactly the up-to-5 most recent
\* records of the pair committed at the moment of the request's history read,
\* all of them when there are at most 5, and never the request's own exchange
\* nor a record committed after the read, even one with a smaller id than the
\* request's own record.
C20_PromptIsOneSnapshot ==
    /\ []PromptHoldsNothingLater
    /\ [][ReadIsSnapshotOfCommitted]_vars
    /\ [][SnapshotIsKept]_vars

C20_Witness ==
    \E r, q \in Reqs :
        /\ r # q
        /\ SameSession(r, q)
        /\ ops[r].read = <<1, 3, 4, 5, 6>>
        /\ ops[q].read = <<1, 3, 4, 5, 6>>
        /\ ops[q].appended = {7}
        /\ ops[r].appended = {8}
        /\ pc[r] = "RESPONDED"
        /\ ops[r].sent = "Here is the conversation so far:\n"
                           \o "User: q1\nAssistant: r1\nUser: q2\nAssistant: r2\n"
                           \o "User: q3\nAssistant: r3\nUser: q4\nAssistant: r4\n"
                           \o "User: q5\nAssistant: r5\n\nNow the user asks: hello"

====
